---- MODULE Spec2Model ----
(***************************************************************************)
(* limeutils.redis.Redis: a namespacing and TTL layer in front of a        *)
(* key-value store.  Strings are sequences of one-character strings, so    *)
(* that strip(), filter(None, ..) and ":".join(..) are computed as the     *)
(* code computes them.                                                     *)
(***************************************************************************)
EXTENDS Integers, Sequences, FiniteSets, TLC

VARIABLES
    instPre,    \* self.pre, set once by __init__
    instVer,    \* self.ver, set once by __init__
    store,      \* the store: composed key -> [kind, str, hash, ttl]
    pc,         \* per caller: "idle", or "expire" between its write and its expire
    call,       \* per caller: the arguments and result of its current / last call
    cmds,       \* per caller: the store commands its current / last call issued
    deleted,    \* history: store keys removed by delete() and not written since
    deletedNS,  \* history: <<prefix, version, key>> removed by delete() and not
                \*          written since under that same prefix / version / key
    fresh,      \* history: <<store key, value>> of a successful set() with no
                \*          later write, delete or hdel on that store key
    targeted,   \* history: <<store key, ttl>> of every write call issued so far
    failed,     \* history: some call ended in an error or was stopped
    orphan,     \* history: keys left by a caller stopped between write and expire
    track       \* which of the histories this specification records

vars == <<instPre, instVer, store, pc, call, cmds, deleted, deletedNS, fresh,
          targeted, failed, orphan, track>>

-----------------------------------------------------------------------------
(* Python values.  A value is [t, s, m]: its type, its text (the repr that  *)
(* redis-py sends for it) and, for a dict, its items in insertion order.    *)

Py(t, s) == [t |-> t, s |-> s, m |-> <<>>]
PyNone == Py("none", <<>>)
PyTrue == Py("bool", <<"T">>)
PyStr(s) == Py("str", s)
PyInt(s) == Py("int", s)
PyFloat(s) == Py("float", s)
PyDict(items) == [t |-> "dict", s |-> <<>>, m |-> items]
ValidationError == Py("ValidationError", <<>>)
StoreError == Py("StoreError", <<>>)
Stopped == Py("stopped", <<>>)
Pending == Py("pending", <<>>)

\* None where a string is expected (pre=None, ver=None, key=None).
NoneS == <<"<None>">>
\* None where a list is expected (fields=None): "fetch all" for hmget.
NoneL == [kind |-> "none", items |-> <<>>]
PyList(items) == [kind |-> "list", items |-> items]
PyTuple(items) == [kind |-> "tuple", items |-> items]

Digits == {"0", "1", "2", "3", "4", "5", "6", "7", "8", "9"}
DigitText == <<"1", "2", "3", "4", "5", "6", "7", "8", "9">>
\* A small count as a Python int.
PyCount(n) == PyInt(IF n = 0 THEN <<"0">> ELSE <<DigitText[n]>>)

IsDigits(s) == Len(s) > 0 /\ \A i \in 1..Len(s) : s[i] \in Digits
Unsigned(s) == IF s # <<>> /\ Head(s) = "-" THEN Tail(s) ELSE s
IsIntText(s) == IsDigits(Unsigned(s))
IsFloatText(s) ==
    LET u == Unsigned(s)
    IN  \E d \in 2..(Len(u) - 1) :
            /\ u[d] = "."
            /\ IsDigits(SubSeq(u, 1, d - 1))
            /\ IsDigits(SubSeq(u, d + 1, Len(u)))

\* What redis-py sends for a value: its text, the type is not stored.
Encode(v) == v.s

\* limeutils.byte_conv: a reply of the store to a native value.  None stays
\* None; text that reads as a number becomes that number; other text (the
\* empty string included) stays a string.
byte_conv(reply) ==
    IF reply = NoneS THEN PyNone
    ELSE IF IsIntText(reply) THEN PyInt(reply)
    ELSE IF IsFloatText(reply) THEN PyFloat(reply)
    ELSE PyStr(reply)

\* Python truthiness of a decoded value, and `val == 0`.
IsZero(v) ==
    /\ v.t \in {"int", "float"}
    /\ \A i \in 1..Len(v.s) : v.s[i] \in {"-", "0", "."}
Truthy(v) ==
    CASE v.t = "none" -> FALSE
      [] v.t = "str" -> v.s # <<>>
      [] v.t \in {"int", "float"} -> ~IsZero(v)
      [] OTHER -> TRUE

-----------------------------------------------------------------------------
(* Strings and key composition.                                            *)

Whitespace == {" "}

RECURSIVE LStrip(_)
LStrip(s) == IF s # <<>> /\ Head(s) \in Whitespace THEN LStrip(Tail(s)) ELSE s
RECURSIVE RStrip(_)
RStrip(s) ==
    IF s # <<>> /\ s[Len(s)] \in Whitespace THEN RStrip(SubSeq(s, 1, Len(s) - 1))
    ELSE s
\* str.strip()
Strip(s) == RStrip(LStrip(s))

\* Truthiness of an optional string: None and '' are falsy.
Falsy(x) == x = NoneS \/ x = <<>>
\* `a and b`, `a or b` on optional strings.
PyAnd(a, b) == IF Falsy(a) THEN a ELSE b
PyOr(a, b) == IF Falsy(a) THEN b ELSE a

\* list(filter(None, list_))
FilterNone(list) == SelectSeq(list, LAMBDA x : ~Falsy(x))
\* ":".join(list_)
RECURSIVE Join(_)
Join(list) ==
    IF list = <<>> THEN <<>>
    ELSE IF Len(list) = 1 THEN list[1]
    ELSE list[1] \o <<":">> \o Join(Tail(list))

\* A slip: the instance prefix and version are used untrimmed.
cleankey_nostrip(dpre, dver, dkey) ==
    LET pre == PyOr(PyAnd(dpre, dpre), instPre)
        ver == PyOr(PyAnd(dver, dver), instVer)
    IN  Join(FilterNone(<<pre, ver, dkey>>))

\* Redis._cleankey
cleankey(dpre, dver, dkey) ==
    LET pre == PyOr(PyAnd(dpre, dpre), Strip(instPre))
        ver == PyOr(PyAnd(dver, dver), Strip(instVer))
    IN  Join(FilterNone(<<pre, ver, dkey>>))

\* A slip: the per-call prefix and version are left out of the keys to delete.
delete_cleaned_instance(dpre, dver, keys) ==
    [i \in 1..Len(keys) |->
        Join(FilterNone(<<Strip(instPre), Strip(instVer), keys[i]>>))]

\* The loop body of Redis.delete, which repeats _cleankey inline.
delete_cleaned(dpre, dver, keys) ==
    [i \in 1..Len(keys) |->
        LET pre == PyOr(PyAnd(dpre, dpre), Strip(instPre))
            ver == PyOr(PyAnd(dver, dver), Strip(instVer))
        IN  Join(FilterNone(<<pre, ver, keys[i]>>))]

-----------------------------------------------------------------------------
(* The store capability (redis.Redis): its commands as functions of the    *)
(* store.  Each gives the new store, the reply and whether it raised.      *)
(* A key holds a string or a hash, and a time to live (NoExpiry: none).    *)
(* The clock does not advance: ttl is the number of seconds last applied.  *)

NoExpiry == -1
EmptyStore == [x \in {} |-> 0]

StringRec(text, ttl) == [kind |-> "string", str |-> text, hash |-> <<>>, ttl |-> ttl]
HashRec(h, ttl) == [kind |-> "hash", str |-> <<>>, hash |-> h, ttl |-> ttl]

Put(st, k, rec) == [x \in (DOMAIN st) \cup {k} |-> IF x = k THEN rec ELSE st[x]]
Remove(st, ks) == [x \in (DOMAIN st) \ ks |-> st[x]]

Reply(st, ret, err) == [st |-> st, ret |-> ret, err |-> err]

HashHas(h, f) == \E i \in 1..Len(h) : h[i][1] = f
HashGet(h, f) ==
    IF HashHas(h, f) THEN h[CHOOSE i \in 1..Len(h) : h[i][1] = f][2] ELSE NoneS
HashPut(h, f, text) ==
    IF HashHas(h, f)
    THEN [i \in 1..Len(h) |-> IF h[i][1] = f THEN <<f, text>> ELSE h[i]]
    ELSE Append(h, <<f, text>>)
RECURSIVE HashPutAll(_, _)
HashPutAll(h, items) ==
    IF items = <<>> THEN h
    ELSE HashPutAll(HashPut(h, items[1][1], items[1][2]), Tail(items))

\* SET key text [XX] [KEEPTTL]: True, or None when XX finds no key.
RSet(st, k, text, xx, keepttl) ==
    IF xx /\ k \notin DOMAIN st THEN Reply(st, PyNone, FALSE)
    ELSE LET ttl == IF keepttl /\ k \in DOMAIN st THEN st[k].ttl ELSE NoExpiry
         IN  Reply(Put(st, k, StringRec(text, ttl)), PyTrue, FALSE)

\* EXPIRE key seconds: a missing key is left missing, seconds <= 0 deletes.
RExpire(st, k, seconds) ==
    IF k \notin DOMAIN st THEN st
    ELSE IF seconds <= 0 THEN Remove(st, {k})
    ELSE Put(st, k, [st[k] EXCEPT !.ttl = seconds])

\* HSET key field text [field text ...]: the number of fields created.
RHSet(st, k, items) ==
    IF items = <<>> THEN Reply(st, 0, TRUE)
    ELSE IF k \in DOMAIN st /\ st[k].kind # "hash" THEN Reply(st, 0, TRUE)
    ELSE LET old == IF k \in DOMAIN st THEN st[k].hash ELSE <<>>
             ttl == IF k \in DOMAIN st THEN st[k].ttl ELSE NoExpiry
             new == HashPutAll(old, items)
         IN  Reply(Put(st, k, HashRec(new, ttl)), Len(new) - Len(old), FALSE)

\* GET key
RGet(st, k) ==
    IF k \notin DOMAIN st THEN Reply(st, NoneS, FALSE)
    ELSE IF st[k].kind # "string" THEN Reply(st, NoneS, TRUE)
    ELSE Reply(st, st[k].str, FALSE)

\* HGET key field
RHGet(st, k, f) ==
    IF k \notin DOMAIN st THEN Reply(st, NoneS, FALSE)
    ELSE IF st[k].kind # "hash" THEN Reply(st, NoneS, TRUE)
    ELSE Reply(st, HashGet(st[k].hash, f), FALSE)

\* HMGET key field [field ...]: one reply per field, in order.
RHMGet(st, k, fields) ==
    IF fields = <<>> THEN Reply(st, <<>>, TRUE)
    ELSE IF k \notin DOMAIN st
    THEN Reply(st, [i \in 1..Len(fields) |-> NoneS], FALSE)
    ELSE IF st[k].kind # "hash" THEN Reply(st, <<>>, TRUE)
    ELSE Reply(st, [i \in 1..Len(fields) |-> HashGet(st[k].hash, fields[i])], FALSE)

\* HGETALL key: the hash's items in the store's field order.
RHGetAll(st, k) ==
    IF k \notin DOMAIN st THEN Reply(st, <<>>, FALSE)
    ELSE IF st[k].kind # "hash" THEN Reply(st, <<>>, TRUE)
    ELSE Reply(st, st[k].hash, FALSE)

\* HDEL key field [field ...]: the number removed; an emptied hash is removed.
RHDel(st, k, fields) ==
    IF fields = <<>> THEN Reply(st, 0, TRUE)
    ELSE IF k \notin DOMAIN st THEN Reply(st, 0, FALSE)
    ELSE IF st[k].kind # "hash" THEN Reply(st, 0, TRUE)
    ELSE LET gone == {fields[i] : i \in 1..Len(fields)}
             old == st[k].hash
             new == SelectSeq(old, LAMBDA it : it[1] \notin gone)
         IN  Reply(IF new = <<>> THEN Remove(st, {k})
                   ELSE Put(st, k, HashRec(new, st[k].ttl)),
                   Len(old) - Len(new), FALSE)

\* DEL key [key ...]: the number of keys removed.
RDel(st, keys) ==
    IF keys = <<>> THEN Reply(st, 0, TRUE)
    ELSE LET ks == {keys[i] : i \in 1..Len(keys)}
         IN  Reply(Remove(st, ks), Cardinality(ks \cap DOMAIN st), FALSE)

Cmd(name, keys) == [name |-> name, keys |-> keys]

-----------------------------------------------------------------------------
(* The command models (limeutils.redis.models) and the call record.        *)

DefaultTTL == 1209600

\* A slip: the custom ttl is dropped and the default always applied.
effective_ttl_default(data_ttl) == DefaultTTL

\* ttl = data.ttl if data.ttl is not None else self.ttl
effective_ttl(data_ttl) == IF data_ttl # <<>> THEN data_ttl[1] ELSE DefaultTTL

\* The record a call leaves: its arguments as normalized by its model, the
\* composed key, the effective ttl and the result.
NewCall(op) ==
    [op |-> op, key |-> <<>>, keys |-> NoneL, pre |-> NoneS, ver |-> NoneS,
     val |-> PyStr(<<>>), field |-> <<>>, mapping |-> <<>>, fields |-> NoneL,
     xx |-> FALSE, keepttl |-> FALSE, ttl |-> <<>>, default |-> PyStr(<<>>),
     skey |-> <<>>, ttlEff |-> 0, left |-> NoExpiry, ret |-> Pending]

\* A single string is coerced to a one-element sequence.
AsSeq(l) == l.items

\* StarterModel: key is a required string.
ValidStarter(data) == data.key # NoneS
\* Hdel: fields_ reduces to a non-empty sequence of strings.
ValidHdel(data) ==
    /\ ValidStarter(data)
    /\ data.fields.kind # "none"
    /\ AsSeq(data.fields) # <<>>
\* Delete: key is a string or a sequence of strings.
ValidDelete(data) ==
    /\ data.keys.kind # "none"
    /\ \A i \in 1..Len(AsSeq(data.keys)) : AsSeq(data.keys)[i] # NoneS

\* The prefix and version a call runs under.
EffPre(pre) == IF pre = NoneS \/ pre = <<>> THEN Strip(instPre) ELSE pre
EffVer(ver) == IF ver = NoneS \/ ver = <<>> THEN Strip(instVer) ELSE ver

\* dict(zip(keys, values)): first position of a key, its last value.
RECURSIVE DictZip(_, _, _)
DictZip(ks, vs, acc) ==
    IF ks = <<>> \/ vs = <<>> THEN acc
    ELSE LET hit == {i \in 1..Len(acc) : acc[i][1] = ks[1]}
         IN  DictZip(Tail(ks), Tail(vs),
                     IF hit = {} THEN Append(acc, <<ks[1], vs[1]>>)
                     ELSE [i \in 1..Len(acc) |->
                              IF i \in hit THEN <<ks[1], vs[1]>> ELSE acc[i]])

EncodeItems(mapping) == [i \in 1..Len(mapping) |-> <<mapping[i][1], Encode(mapping[i][2])>>]

\* The store key a call is meant to reach: the non-empty ones of effective
\* prefix, effective version and base key, in that order, joined by ":".
ExpectedKey(pre, ver, key) ==
    LET p == EffPre(pre)
        v == EffVer(ver)
        pv == IF p = <<>> THEN v
              ELSE IF v = <<>> THEN p
              ELSE p \o <<":">> \o v
    IN  IF pv = <<>> THEN key
        ELSE IF key = <<>> THEN pv
        ELSE pv \o <<":">> \o key

\* The ttl a write call is meant to apply: its own, or the default.
WantTTL(ttl) == IF ttl = <<>> THEN 1209600 ELSE ttl[1]

-----------------------------------------------------------------------------
(* History kept beside the program's state.                                *)

\* A write call was issued against store key k.
NoteWrite(k, data, t) ==
    /\ deleted' = deleted \ {k}
    /\ deletedNS' = deletedNS \ {<<EffPre(data.pre), EffVer(data.ver), data.key>>}
    /\ fresh' = {f \in fresh : f[1] # k}
    /\ targeted' = IF "targeted" \in track
                   THEN targeted \cup {<<ExpectedKey(data.pre, data.ver, data.key),
                                         WantTTL(data.ttl)>>}
                   ELSE targeted
    /\ orphan' = {o \in orphan : o.key # k}

NoHistory == UNCHANGED <<deleted, deletedNS, fresh, targeted, orphan>>

\* A call that raises or returns at once, without a store command.
Return(c, data, ret, bad) ==
    /\ call' = [call EXCEPT ![c] = [data EXCEPT !.ret = ret]]
    /\ cmds' = [cmds EXCEPT ![c] = <<>>]
    /\ failed' = (failed \/ bad)
    /\ UNCHANGED <<store, pc>>
    /\ NoHistory

-----------------------------------------------------------------------------
(* The operations.  A write is two steps: the write command, then the      *)
(* expire command and the return.                                          *)

\* A variant: the write command carries the expiration itself (SET .. EX).
set_with_ex(c, key, val, xx, keepttl, ttl, pre, ver) ==
    /\ pc[c] = "idle"
    /\ UNCHANGED <<instPre, instVer, track>>
    /\ LET data == [NewCall("set") EXCEPT !.key = key, !.val = val, !.xx = xx,
                        !.keepttl = keepttl, !.ttl = ttl, !.pre = pre, !.ver = ver]
           k == cleankey(data.pre, data.ver, data.key)
           t == effective_ttl(data.ttl)
           r == RSet(store, k, Encode(data.val), data.xx, data.keepttl)
       IN  /\ store' = RExpire(r.st, k, t)
           /\ pc' = [pc EXCEPT ![c] = "expire"]
           /\ call' = [call EXCEPT ![c] =
                          [data EXCEPT !.skey = k, !.ttlEff = t, !.ret = r.ret]]
           /\ cmds' = [cmds EXCEPT ![c] = <<Cmd("SET", <<k>>)>>]
           /\ NoteWrite(k, data, t)
           /\ UNCHANGED failed

\* Redis.set, lines 47-51.
set(c, key, val, xx, keepttl, ttl, pre, ver) ==
    /\ pc[c] = "idle"
    /\ UNCHANGED <<instPre, instVer, track>>
    /\ LET data == [NewCall("set") EXCEPT !.key = key, !.val = val, !.xx = xx,
                        !.keepttl = keepttl, !.ttl = ttl, !.pre = pre, !.ver = ver]
       IN  IF ~ValidStarter(data) THEN Return(c, data, ValidationError, TRUE)
           ELSE LET k == cleankey(data.pre, data.ver, data.key)
                    t == effective_ttl(data.ttl)
                    r == RSet(store, k, Encode(data.val), data.xx, data.keepttl)
                    left == IF data.keepttl /\ k \in DOMAIN store
                            THEN store[k].ttl ELSE NoExpiry
                IN  /\ store' = r.st
                    /\ pc' = [pc EXCEPT ![c] = "expire"]
                    /\ call' = [call EXCEPT ![c] =
                                   [data EXCEPT !.skey = k, !.ttlEff = t,
                                                !.left = left, !.ret = r.ret]]
                    /\ cmds' = [cmds EXCEPT ![c] = <<Cmd("SET", <<k>>)>>]
                    /\ NoteWrite(k, data, t)
                    /\ UNCHANGED failed

\* Redis.hset, lines 69-74.
hset(c, key, field, val, mapping, ttl, pre, ver) ==
    /\ pc[c] = "idle"
    /\ UNCHANGED <<instPre, instVer, track>>
    /\ LET data == [NewCall("hset") EXCEPT !.key = key, !.field = field, !.val = val,
                        !.mapping = mapping, !.ttl = ttl, !.pre = pre, !.ver = ver]
       IN  IF ~ValidStarter(data) THEN Return(c, data, ValidationError, TRUE)
           ELSE LET k == cleankey(data.pre, data.ver, data.key)
                    t == effective_ttl(data.ttl)
                    r == RHSet(store, k, <<<<data.field, Encode(data.val)>>>>
                                         \o EncodeItems(data.mapping))
                    left == IF k \in DOMAIN store THEN store[k].ttl ELSE NoExpiry
                    done == [data EXCEPT !.skey = k, !.ttlEff = t, !.left = left]
                IN  /\ store' = r.st
                    /\ cmds' = [cmds EXCEPT ![c] = <<Cmd("HSET", <<k>>)>>]
                    /\ NoteWrite(k, data, t)
                    /\ IF r.err
                       THEN /\ call' = [call EXCEPT ![c] = [done EXCEPT !.ret = StoreError]]
                            /\ failed' = TRUE
                            /\ UNCHANGED pc
                       ELSE /\ call' = [call EXCEPT ![c] = [done EXCEPT !.ret = PyCount(r.ret)]]
                            /\ pc' = [pc EXCEPT ![c] = "expire"]
                            /\ UNCHANGED failed

\* Redis.hmset, lines 89-96.
hmset(c, key, mapping, ttl, pre, ver) ==
    /\ pc[c] = "idle"
    /\ UNCHANGED <<instPre, instVer, track>>
    /\ LET data == [NewCall("hmset") EXCEPT !.key = key, !.mapping = mapping,
                        !.ttl = ttl, !.pre = pre, !.ver = ver]
       IN  IF mapping = <<>> THEN Return(c, data, PyCount(0), FALSE)
           ELSE IF ~ValidStarter(data) THEN Return(c, data, ValidationError, TRUE)
           ELSE LET k == cleankey(data.pre, data.ver, data.key)
                    t == effective_ttl(data.ttl)
                    r == RHSet(store, k, EncodeItems(data.mapping))
                    left == IF k \in DOMAIN store THEN store[k].ttl ELSE NoExpiry
                    done == [data EXCEPT !.skey = k, !.ttlEff = t, !.left = left]
                IN  /\ store' = r.st
                    /\ cmds' = [cmds EXCEPT ![c] = <<Cmd("HSET", <<k>>)>>]
                    /\ NoteWrite(k, data, t)
                    /\ IF r.err
                       THEN /\ call' = [call EXCEPT ![c] = [done EXCEPT !.ret = StoreError]]
                            /\ failed' = TRUE
                            /\ UNCHANGED pc
                       ELSE /\ call' = [call EXCEPT ![c] = [done EXCEPT !.ret = PyCount(r.ret)]]
                            /\ pc' = [pc EXCEPT ![c] = "expire"]
                            /\ UNCHANGED failed

\* A slip: hset returns without the expire command.
ExpireReturn_hset_skips(c, op) ==
    /\ pc[c] = "expire"
    /\ UNCHANGED <<instPre, instVer, track>>
    /\ call[c].op = op
    /\ store' = IF op = "hset" THEN store
                ELSE RExpire(store, call[c].skey, call[c].ttlEff)
    /\ pc' = [pc EXCEPT ![c] = "idle"]
    /\ cmds' = [cmds EXCEPT ![c] = Append(@, Cmd("EXPIRE", <<call[c].skey>>))]
    /\ UNCHANGED <<call, deleted, deletedNS, fresh, targeted, failed, orphan>>

\* self.r.expire(key, ttl); return ret -- the second step of a write.
ExpireReturn(c, op) ==
    /\ pc[c] = "expire"
    /\ UNCHANGED <<instPre, instVer, track>>
    /\ call[c].op = op
    /\ store' = RExpire(store, call[c].skey, call[c].ttlEff)
    /\ pc' = [pc EXCEPT ![c] = "idle"]
    /\ cmds' = [cmds EXCEPT ![c] = Append(@, Cmd("EXPIRE", <<call[c].skey>>))]
    /\ fresh' = IF "fresh" \in track /\ op = "set" /\ call[c].ret = PyTrue
                   /\ call[c].ttlEff > 0
                THEN {f \in fresh : f[1] # call[c].skey}
                     \cup {<<call[c].skey, call[c].val>>}
                ELSE {f \in fresh : f[1] # call[c].skey}
    /\ orphan' = {o \in orphan : o.key # call[c].skey}
    /\ UNCHANGED <<call, deleted, deletedNS, targeted, failed>>

\* Redis.set, lines 52-53.
set_expire(c) == ExpireReturn(c, "set")
\* Redis.hset, lines 75-76.
hset_expire(c) == ExpireReturn(c, "hset")
\* Redis.hmset, lines 97-98.
hmset_expire(c) == ExpireReturn(c, "hmset")

\* A slip: `return val if val else default`, which loses 0.
or_default_falsy(val, default) == IF Truthy(val) THEN val ELSE default

\* return val if val or val == 0 else default
or_default(val, default) == IF Truthy(val) \/ IsZero(val) THEN val ELSE default

\* A slip: fields the hash does not hold are left out of the result.
hmget_pairs_present(fields, val_list) ==
    LET at == SelectSeq([i \in 1..Len(val_list) |-> i], LAMBDA i : val_list[i] # NoneS)
    IN  DictZip([i \in 1..Len(at) |-> PyStr(fields[at[i]])],
                [i \in 1..Len(at) |-> byte_conv(val_list[at[i]])], <<>>)

\* v = map(byte_conv, val_list); val_dict = dict(zip(fields, v))
hmget_pairs(fields, val_list) ==
    DictZip([i \in 1..Len(fields) |-> PyStr(fields[i])],
            [i \in 1..Len(val_list) |-> byte_conv(val_list[i])], <<>>)

\* A call that ends in one store command which changes no key.
ReadReturn(c, data, k, name, ret, bad) ==
    /\ call' = [call EXCEPT ![c] = [data EXCEPT !.skey = k, !.ret = ret]]
    /\ cmds' = [cmds EXCEPT ![c] = <<Cmd(name, <<k>>)>>]
    /\ failed' = (failed \/ bad)
    /\ UNCHANGED <<store, pc>>
    /\ NoHistory

\* Redis.get, lines 110-115.
get(c, key, default, pre, ver) ==
    /\ pc[c] = "idle"
    /\ UNCHANGED <<instPre, instVer, track>>
    /\ LET data == [NewCall("get") EXCEPT !.key = key, !.default = default,
                        !.pre = pre, !.ver = ver]
       IN  IF ~ValidStarter(data) THEN Return(c, data, ValidationError, TRUE)
           ELSE LET k == cleankey(data.pre, data.ver, data.key)
                    r == RGet(store, k)
                    val == byte_conv(r.ret)
                IN  IF r.err THEN ReadReturn(c, data, k, "GET", StoreError, TRUE)
                    ELSE ReadReturn(c, data, k, "GET", or_default(val, data.default), FALSE)

\* Redis.hget, lines 129-134.  The model is built without the field.
hget(c, key, field, default, pre, ver) ==
    /\ pc[c] = "idle"
    /\ UNCHANGED <<instPre, instVer, track>>
    /\ LET data == [NewCall("hget") EXCEPT !.key = key, !.default = default,
                        !.pre = pre, !.ver = ver]
           shown == [data EXCEPT !.field = field]
       IN  IF ~ValidStarter(data) THEN Return(c, shown, ValidationError, TRUE)
           ELSE LET k == cleankey(data.pre, data.ver, data.key)
                    r == RHGet(store, k, field)
                    val == byte_conv(r.ret)
                IN  IF r.err THEN ReadReturn(c, shown, k, "HGET", StoreError, TRUE)
                    ELSE ReadReturn(c, shown, k, "HGET", or_default(val, data.default), FALSE)

\* Redis.hmget, lines 146-161.
hmget(c, key, fields, pre, ver) ==
    /\ pc[c] = "idle"
    /\ UNCHANGED <<instPre, instVer, track>>
    /\ LET data == [NewCall("hmget") EXCEPT !.key = key, !.fields = fields,
                        !.pre = pre, !.ver = ver]
       IN  IF fields.kind = "list" /\ Len(fields.items) = 0
           THEN Return(c, data, PyDict(<<>>), FALSE)
           ELSE IF ~ValidStarter(data) THEN Return(c, data, ValidationError, TRUE)
           ELSE LET k == cleankey(data.pre, data.ver, data.key)
                IN  IF fields # NoneL
                    THEN LET r == RHMGet(store, k, AsSeq(data.fields))
                         IN  IF r.err THEN ReadReturn(c, data, k, "HMGET", StoreError, TRUE)
                             ELSE ReadReturn(c, data, k, "HMGET",
                                             PyDict(hmget_pairs(fields.items, r.ret)), FALSE)
                    ELSE LET r == RHGetAll(store, k)
                             kk == [i \in 1..Len(r.ret) |-> byte_conv(r.ret[i][1])]
                             v == [i \in 1..Len(r.ret) |-> byte_conv(r.ret[i][2])]
                         IN  IF r.err THEN ReadReturn(c, data, k, "HGETALL", StoreError, TRUE)
                             ELSE ReadReturn(c, data, k, "HGETALL",
                                             PyDict(DictZip(kk, v, <<>>)), FALSE)

\* Redis.hdel, lines 174-177.
hdel(c, key, fields, pre, ver) ==
    /\ pc[c] = "idle"
    /\ UNCHANGED <<instPre, instVer, track>>
    /\ LET data == [NewCall("hdel") EXCEPT !.key = key, !.fields = fields,
                        !.pre = pre, !.ver = ver]
       IN  IF ~ValidHdel(data) THEN Return(c, data, ValidationError, TRUE)
           ELSE LET k == cleankey(data.pre, data.ver, data.key)
                    r == RHDel(store, k, AsSeq(data.fields))
                IN  /\ store' = r.st
                    /\ call' = [call EXCEPT ![c] =
                                   [data EXCEPT !.skey = k,
                                       !.ret = IF r.err THEN StoreError ELSE PyCount(r.ret)]]
                    /\ cmds' = [cmds EXCEPT ![c] = <<Cmd("HDEL", <<k>>)>>]
                    /\ failed' = (failed \/ r.err)
                    /\ fresh' = {f \in fresh : f[1] # k}
                    /\ orphan' = {o \in orphan : o.key # k}
                    /\ UNCHANGED <<pc, deleted, deletedNS, targeted>>

\* Redis.delete, lines 188-200.
delete(c, keys, pre, ver) ==
    /\ pc[c] = "idle"
    /\ UNCHANGED <<instPre, instVer, track>>
    /\ LET data == [NewCall("delete") EXCEPT !.keys = keys, !.pre = pre, !.ver = ver]
       IN  IF ~ValidDelete(data) THEN Return(c, data, ValidationError, TRUE)
           ELSE LET cleaned == delete_cleaned(data.pre, data.ver, AsSeq(data.keys))
                    r == RDel(store, cleaned)
                    gone == {cleaned[i] : i \in 1..Len(cleaned)}
                IN  /\ store' = r.st
                    /\ call' = [call EXCEPT ![c] =
                                   [data EXCEPT
                                       !.ret = IF r.err THEN StoreError ELSE PyCount(r.ret)]]
                    /\ cmds' = [cmds EXCEPT ![c] = <<Cmd("DEL", cleaned)>>]
                    /\ failed' = (failed \/ r.err)
                    /\ deleted' =
                           IF "deleted" \in track
                           THEN deleted \cup
                                {ExpectedKey(data.pre, data.ver, AsSeq(data.keys)[i]) :
                                    i \in 1..Len(cleaned)}
                           ELSE deleted
                    /\ deletedNS' =
                           IF "deleted" \in track
                           THEN deletedNS \cup
                                {<<EffPre(data.pre), EffVer(data.ver), AsSeq(data.keys)[i]>> :
                                    i \in 1..Len(cleaned)}
                           ELSE deletedNS
                    /\ fresh' = {f \in fresh : f[1] \notin gone}
                    /\ orphan' = {o \in orphan : o.key \notin gone}
                    /\ UNCHANGED <<pc, targeted>>

\* The call ends between the write command and the expire command: the
\* client crashes, or the store raises on EXPIRE and the error propagates.
\* Nothing of the call is left to run; the caller may call again.
stop(c) ==
    /\ pc[c] = "expire"
    /\ UNCHANGED <<instPre, instVer, track>>
    /\ pc' = [pc EXCEPT ![c] = "idle"]
    /\ call' = [call EXCEPT ![c].ret = Stopped]
    /\ failed' = TRUE
    /\ orphan' = IF "orphan" \notin track \/ (call[c].op = "set" /\ call[c].ret # PyTrue)
                 THEN orphan
                 ELSE orphan \cup {[key |-> call[c].skey, op |-> call[c].op,
                                    keepttl |-> call[c].keepttl,
                                    left |-> call[c].left, want |-> call[c].ttlEff]}
    /\ UNCHANGED <<store, cmds, deleted, deletedNS, fresh, targeted>>

-----------------------------------------------------------------------------
(* Bounds and inputs.                                                      *)

NCallers == 2
CustomTTL == 60

Callers == 1..NCallers

K == <<"k">>
M == <<"m">>
F1 == <<"f">>
F2 == <<"g">>
X == PyStr(<<"x">>)
D == PyStr(<<"d">>)
Strs(l) == [kind |-> "str", items |-> l]

InitWith(pres, vers, histories) ==
    /\ track = histories
    /\ instPre \in pres
    /\ instVer \in vers
    /\ store = EmptyStore
    /\ pc = [c \in Callers |-> "idle"]
    /\ call = [c \in Callers |-> NewCall("none")]
    /\ cmds = [c \in Callers |-> <<>>]
    /\ deleted = {}
    /\ deletedNS = {}
    /\ fresh = {}
    /\ targeted = {}
    /\ failed = FALSE
    /\ orphan = {}

-----------------------------------------------------------------------------
(* KeySpec: one caller, every operation, over instance and per-call        *)
(* prefixes and versions.                                                  *)

KeyInstPre == {<<>>, <<" ", "p", " ">>}
KeyInstVer == {<<" ">>, <<"v">>}
\* Per-call <<pre, ver>>: none given, a prefix alone, an empty prefix with a
\* version.
KeyNS == {<<NoneS, NoneS>>, <<<<"a">>, NoneS>>, <<<<>>, <<"a">>>>}

KeyInit == InitWith(KeyInstPre, KeyInstVer, {})

KeyNext ==
    \E ns \in KeyNS :
        \/ set(1, K, X, FALSE, FALSE, <<>>, ns[1], ns[2])
        \/ set_expire(1)
        \/ hset(1, K, F1, X, <<>>, <<>>, ns[1], ns[2])
        \/ hset_expire(1)
        \/ hmset(1, K, <<<<F1, X>>>>, <<>>, ns[1], ns[2])
        \/ hmset_expire(1)
        \/ \E key \in {K, <<>>} : get(1, key, D, ns[1], ns[2])
        \/ hget(1, K, F1, D, ns[1], ns[2])
        \/ hmget(1, K, PyList(<<F1>>), ns[1], ns[2])
        \/ hdel(1, K, Strs(<<F1>>), ns[1], ns[2])
        \/ \E keys \in {Strs(<<K>>), PyList(<<M, K>>)} : delete(1, keys, ns[1], ns[2])

KeySpec == KeyInit /\ [][KeyNext]_vars

\* C1: every store command of every operation carries the key that is the
\* ":"-join of the non-empty ones of [effective prefix, effective version,
\* base key]; delete sends one such key per base key, in order.
C1_KeySent ==
    \A c \in Callers : \A i \in 1..Len(cmds[c]) :
        cmds[c][i].keys =
            IF call[c].op = "delete"
            THEN [j \in 1..Len(call[c].keys.items) |->
                     ExpectedKey(call[c].pre, call[c].ver, call[c].keys.items[j])]
            ELSE <<ExpectedKey(call[c].pre, call[c].ver, call[c].key)>>

\* A delete of two keys under a padded instance prefix and a per-call version
\* has sent both composed keys, the prefix trimmed.
C1_Witness ==
    /\ instPre = <<" ", "p", " ">>
    /\ call[1].op = "delete"
    /\ call[1].ver = <<"a">>
    /\ cmds[1] = <<Cmd("DEL", <<<<"p", ":", "a", ":", "m">>, <<"p", ":", "a", ":", "k">>>>)>>

-----------------------------------------------------------------------------
(* DelSpec: one caller deleting, writing and reading one base key under    *)
(* several prefixes and versions.                                          *)

DelInit == InitWith({<<>>, <<"a">>}, {<<" ">>}, {"deleted"})

DelNext ==
    \E ns \in KeyNS :
        \/ set(1, K, X, FALSE, FALSE, <<>>, ns[1], ns[2])
        \/ set_expire(1)
        \/ hset(1, K, F1, X, <<>>, <<>>, ns[1], ns[2])
        \/ hset_expire(1)
        \/ hdel(1, K, Strs(<<F1>>), ns[1], ns[2])
        \/ get(1, K, D, ns[1], ns[2])
        \/ \E keys \in {Strs(<<K>>), PyList(<<M, K>>)} : delete(1, keys, ns[1], ns[2])

DelSpec == DelInit /\ [][DelNext]_vars

\* C6 as stated: once delete(k) ran under a prefix and version, and k was not
\* written again under that prefix and version, get(k, default=D) under
\* them returns D.
C6_AsStated ==
    (call[1].op = "get" /\ pc[1] = "idle"
        /\ <<EffPre(call[1].pre), EffVer(call[1].ver), call[1].key>> \in deletedNS)
    => call[1].ret = call[1].default

\* C6 amended: once delete(k) ran, and no write call has since been issued
\* against the store key that k composes to, get(k, default=D) returns D.
C6_DeleteThenGet ==
    (call[1].op = "get" /\ pc[1] = "idle"
        /\ ExpectedKey(call[1].pre, call[1].ver, call[1].key) \in deleted)
    => call[1].ret = call[1].default

\* A get of a deleted key, after a write under another prefix and version,
\* has returned the default.
C6_Witness ==
    /\ call[1].op = "get"
    /\ call[1].pre = <<"a">>
    /\ call[1].skey \in deleted
    /\ store # EmptyStore
    /\ call[1].ret = D

-----------------------------------------------------------------------------
(* ValSpec: one caller, every operation on one key, over the scalar        *)
(* values, the options of each operation and arguments its model rejects.  *)

Empty == PyStr(<<>>)
Zero == PyInt(<<"0">>)
ValVals == {Empty, PyStr(<<"a">>), Zero, PyInt(<<"7">>), PyFloat(<<"7", ".", "5">>),
            PyStr(<<"7">>)}
\* <<xx, keepttl, ttl>> of a set.
ValSetOpts == {<<FALSE, FALSE, <<>>>>, <<TRUE, FALSE, <<>>>>, <<FALSE, TRUE, <<>>>>,
               <<FALSE, FALSE, <<CustomTTL>>>>, <<FALSE, TRUE, <<CustomTTL>>>>,
               <<FALSE, FALSE, <<0>>>>}
ValTTL == {<<>>, <<CustomTTL>>}
ValDefaults == {Empty, D}
ValHashVals == {Empty, Zero, X}
ValMappings == {<<>>, <<<<F1, X>>>>, <<<<F1, Empty>>, <<F2, Zero>>>>}
ValFields == {NoneL, PyList(<<>>), PyTuple(<<>>), PyList(<<F1>>), PyList(<<F2, F1>>),
              PyList(<<F1, F1>>), PyTuple(<<F1, F2>>)}
ValHdel == {Strs(<<F1>>), PyList(<<F1, F2>>)}
ValDelete == {Strs(<<K>>), PyList(<<K, M>>)}

ValInit == InitWith({<<>>}, {<<>>}, {"fresh"})

\* Calls whose arguments the models accept.
ValCalls ==
    \/ \E val \in ValVals, o \in ValSetOpts : set(1, K, val, o[1], o[2], o[3], NoneS, NoneS)
    \/ set_expire(1)
    \/ \E field \in {F1, F2}, val \in ValHashVals, ttl \in ValTTL :
           hset(1, K, field, val, <<>>, ttl, NoneS, NoneS)
    \/ hset_expire(1)
    \/ \E mapping \in ValMappings, ttl \in ValTTL : hmset(1, K, mapping, ttl, NoneS, NoneS)
    \/ hmset_expire(1)
    \/ \E default \in ValDefaults : get(1, K, default, NoneS, NoneS)
    \/ \E field \in {F1, F2}, default \in ValDefaults : hget(1, K, field, default, NoneS, NoneS)
    \/ \E fields \in ValFields : hmget(1, K, fields, NoneS, NoneS)
    \/ \E fields \in ValHdel : hdel(1, K, fields, NoneS, NoneS)
    \/ \E keys \in ValDelete : delete(1, keys, NoneS, NoneS)

\* Calls whose arguments the models reject: no key, no fields to delete.
BadCalls ==
    \/ set(1, NoneS, X, FALSE, FALSE, <<>>, NoneS, NoneS)
    \/ hset(1, NoneS, F1, X, <<>>, <<>>, NoneS, NoneS)
    \/ \E mapping \in {<<>>, <<<<F1, X>>>>} : hmset(1, NoneS, mapping, <<>>, NoneS, NoneS)
    \/ get(1, NoneS, D, NoneS, NoneS)
    \/ hget(1, NoneS, F1, D, NoneS, NoneS)
    \/ \E fields \in {NoneL, PyList(<<>>), PyList(<<F1>>)} : hmget(1, NoneS, fields, NoneS, NoneS)
    \/ \E fields \in {NoneL, PyList(<<>>)} : hdel(1, K, fields, NoneS, NoneS)
    \/ delete(1, PyList(<<K, NoneS>>), NoneS, NoneS)

ValNext == ValCalls \/ BadCalls

ValSpec == ValInit /\ [][ValNext]_vars

\* The arguments of caller c's call pass its command model.
ArgsValid(c) ==
    CASE call[c].op = "hdel" -> ValidHdel(call[c])
      [] call[c].op = "delete" -> ValidDelete(call[c])
      [] OTHER -> ValidStarter(call[c])

Returned(c) == pc[c] = "idle" /\ call[c].op # "none"
Raised(c) == call[c].ret \in {ValidationError, StoreError}
KeyOf(c) == ExpectedKey(call[c].pre, call[c].ver, call[c].key)

\* C2 as stated: set(k, v) returns a true result, and a get(k) that follows
\* it with no write, delete or hdel of k in between returns v, for every
\* scalar v.
C2_AsStated ==
    /\ (Returned(1) /\ call[1].op = "set" /\ ArgsValid(1) /\ ~call[1].xx)
           => call[1].ret = PyTrue
    /\ (Returned(1) /\ call[1].op = "get" /\ call[1].default = Empty)
           => \A f \in fresh : f[1] = KeyOf(1) => call[1].ret = f[2]

\* A string that does not read as a number, or a number.
KeepsType(v) == v.t \in {"int", "float"} \/ ~(IsIntText(v.s) \/ IsFloatText(v.s))

\* C2 amended: the same, for every v that is an integer, a float or a string
\* that does not read as a number (the empty string and 0 included).
C2_RoundTrip ==
    /\ (Returned(1) /\ call[1].op = "set" /\ ArgsValid(1) /\ ~call[1].xx)
           => call[1].ret = PyTrue
    /\ (Returned(1) /\ call[1].op = "get" /\ call[1].default = Empty)
           => \A f \in fresh : (f[1] = KeyOf(1) /\ KeepsType(f[2])) => call[1].ret = f[2]

\* A get has returned the integer 0 that the set before it stored.
C2_Witness ==
    /\ Returned(1)
    /\ call[1].op = "get"
    /\ call[1].default = Empty
    /\ <<K, Zero>> \in fresh
    /\ call[1].ret = Zero

\* C3 as stated: get and hget return the stored value, decoded, whenever the
\* key (the field) is present; the default stands in for an absent one only.
C3_AsStated ==
    /\ (Returned(1) /\ call[1].op = "get" /\ ArgsValid(1)
            /\ KeyOf(1) \in DOMAIN store /\ store[KeyOf(1)].kind = "string")
           => call[1].ret = byte_conv(store[KeyOf(1)].str)
    /\ (Returned(1) /\ call[1].op = "hget" /\ ArgsValid(1)
            /\ KeyOf(1) \in DOMAIN store /\ store[KeyOf(1)].kind = "hash"
            /\ HashHas(store[KeyOf(1)].hash, call[1].field))
           => call[1].ret = byte_conv(HashGet(store[KeyOf(1)].hash, call[1].field))

\* C4: a write call that returns leaves its key with the custom ttl if one
\* was given and 1,209,600 seconds otherwise, whatever expiration the key
\* carried before; a ttl that is not positive expires the key at once.
C4_WriteSetsTTL ==
    (Returned(1) /\ call[1].op \in {"set", "hset", "hmset"} /\ ~Raised(1)
        /\ (call[1].op = "hmset" => call[1].mapping # <<>>))
    => LET t == IF call[1].ttl # <<>> THEN call[1].ttl[1] ELSE 1209600
           written == call[1].op = "set" => call[1].ret = PyTrue
       IN  IF t > 0
           THEN /\ written => KeyOf(1) \in DOMAIN store
                /\ KeyOf(1) \in DOMAIN store => store[KeyOf(1)].ttl = t
           ELSE KeyOf(1) \notin DOMAIN store

\* A set with keepttl and no ttl has returned on a key that carried the
\* custom expiration: the key now carries the default.
C4_Witness ==
    /\ Returned(1)
    /\ call[1].op = "set"
    /\ call[1].keepttl
    /\ call[1].ttl = <<>>
    /\ call[1].left = CustomTTL
    /\ store[K].ttl = 1209600

\* C5 as stated: a call whose arguments fail validation raises the
\* validation failure and issues no store command.
C5_AsStated ==
    (Returned(1) /\ ~ArgsValid(1)) => (call[1].ret = ValidationError /\ cmds[1] = <<>>)

\* The first position of a field name in a request.
FirstAt(items, f) == CHOOSE i \in 1..Len(items) : items[i] = f /\ \A j \in 1..(i - 1) : items[j] # f

\* C7: hmget with a non-empty fields argument, on a hash or a missing key,
\* returns a mapping whose keys are exactly the requested names, in request
\* order, each with the decoded value of that field, None for a missing one.
C7_HmgetPairs ==
    (Returned(1) /\ call[1].op = "hmget" /\ ArgsValid(1)
        /\ call[1].fields # NoneL /\ call[1].fields.items # <<>>
        /\ (K \in DOMAIN store => store[K].kind = "hash"))
    => LET req == call[1].fields.items
           m == call[1].ret.m
           h == IF K \in DOMAIN store THEN store[K].hash ELSE <<>>
       IN  /\ call[1].ret.t = "dict"
           /\ {m[i][1] : i \in 1..Len(m)} = {PyStr(req[i]) : i \in 1..Len(req)}
           /\ \A i, j \in 1..Len(m) :
                  i < j => FirstAt(req, m[i][1].s) < FirstAt(req, m[j][1].s)
           /\ \A i \in 1..Len(m) : m[i][2] = byte_conv(HashGet(h, m[i][1].s))

\* An hmget of two fields, one stored as '' and one missing, has returned
\* both: the stored one as '', the missing one as None.
C7_Witness ==
    /\ Returned(1)
    /\ call[1].op = "hmget"
    /\ call[1].fields = PyList(<<F2, F1>>)
    /\ call[1].ret = PyDict(<<<<PyStr(F2), PyNone>>, <<PyStr(F1), Empty>>>>)

\* C8 as stated: hmget with an explicit empty sequence of fields returns an
\* empty mapping, hmset with an empty mapping returns 0, and neither issues
\* a store command.
C8_AsStated ==
    /\ (Returned(1) /\ call[1].op = "hmget" /\ call[1].fields # NoneL
            /\ call[1].fields.items = <<>>)
           => (call[1].ret = PyDict(<<>>) /\ cmds[1] = <<>>)
    /\ (Returned(1) /\ call[1].op = "hmset" /\ call[1].mapping = <<>>)
           => (call[1].ret = PyCount(0) /\ cmds[1] = <<>>)

-----------------------------------------------------------------------------
(* Spec: several callers on one client, their store commands interleaved,  *)
(* from an empty store, every ttl positive.  A run is followed up to its   *)
(* first failing call.                                                     *)

\* <<xx, keepttl, ttl>> of a set.
ConcSetOpts == {<<FALSE, FALSE, <<>>>>, <<TRUE, TRUE, <<CustomTTL>>>>}

Init == InitWith({<<>>}, {<<>>}, {"targeted"})

Next ==
    \E c \in Callers :
        \/ ~failed /\ \E o \in ConcSetOpts : set(c, K, X, o[1], o[2], o[3], NoneS, NoneS)
        \/ set_expire(c)
        \/ ~failed /\ hset(c, K, F1, X, <<>>, <<>>, NoneS, NoneS)
        \/ hset_expire(c)
        \/ ~failed /\ hmset(c, K, <<<<F1, X>>>>, <<>>, NoneS, NoneS)
        \/ hmset_expire(c)
        \/ ~failed /\ hdel(c, K, Strs(<<F1>>), NoneS, NoneS)
        \/ ~failed /\ delete(c, Strs(<<K>>), NoneS, NoneS)

Spec == Init /\ [][Next]_vars

\* C10: whenever no call is in progress and none has failed, every key in
\* the store has an expiration, and it is the ttl (its own or the default
\* 1,209,600) of some write call issued against that key.
C10_QuiescentTTL ==
    ((\A c \in Callers : pc[c] = "idle") /\ ~failed)
    => \A k \in DOMAIN store :
           /\ store[k].ttl # NoExpiry
           /\ <<k, store[k].ttl>> \in targeted

\* No call is in progress, none failed, and the key holds a hash under the
\* custom ttl, which only a set call carried.
C10_Witness ==
    /\ \A c \in Callers : pc[c] = "idle"
    /\ ~failed
    /\ K \in DOMAIN store
    /\ store[K].kind = "hash"
    /\ store[K].ttl = CustomTTL

-----------------------------------------------------------------------------
(* CrashSpec: one caller whose call may end between its write command and *)
(* its expire command, and who then goes on calling.                       *)

CrashInit == InitWith({<<>>}, {<<>>}, {"orphan"})

CrashNext ==
    \/ \E o \in ConcSetOpts : set(1, K, X, o[1], o[2], o[3], NoneS, NoneS)
    \/ set_expire(1)
    \/ \E ttl \in ValTTL : hset(1, K, F1, X, <<>>, ttl, NoneS, NoneS)
    \/ hset_expire(1)
    \/ hmset(1, K, <<<<F2, X>>>>, <<>>, NoneS, NoneS)
    \/ hmset_expire(1)
    \/ \E key \in {K, M} : get(1, key, D, NoneS, NoneS)
    \/ hget(1, K, F1, D, NoneS, NoneS)
    \/ \E key \in {K, M} : delete(1, Strs(<<key>>), NoneS, NoneS)
    \/ stop(1)

CrashSpec == CrashInit /\ [][CrashNext]_vars

\* C9: a key whose writer stopped between the write and the expire command
\* stays written with the expiration the write command alone left it (none
\* for a new key or a plain SET), until a later call targets that key.
C9_WriteWithoutTTL ==
    \A o \in orphan :
        /\ o.key \in DOMAIN store
        /\ store[o.key].ttl = o.left
        /\ (o.op = "set" /\ ~o.keepttl) => store[o.key].ttl = NoExpiry

\* A call ended after its write; the key is left without expiration although
\* the call meant the default, and a later get found the key as it was left.
C9_Witness ==
    \E o \in orphan :
        /\ store[o.key].ttl = NoExpiry
        /\ o.want = 1209600
        /\ pc[1] = "idle" /\ call[1].op = "get"
        /\ call[1].skey = o.key /\ call[1].ret = X

====
